---- MODULE Spec2Model ----
(***************************************************************************)
(* A model of fs.py: the feature value cache, the recursive resolver       *)
(* Entity.calculate_feature_value, Entity.stipulate_feature_value and the  *)
(* hydration loop Session.dump.                                            *)
(*                                                                         *)
(* Floats are modelled by the integers they denote (every value used is a  *)
(* small whole number, which a float represents exactly).  Python strings  *)
(* are TLA+ strings and + / ''.join is \o.                                 *)
(***************************************************************************)
EXTENDS Integers, Sequences, FiniteSets, TLC

VARIABLES
    globals,            \* the module's globals: Entity subclasses, data sources
    sessions,           \* Session objects: data_sources, entities, cache
    heap,               \* FeatureValueCache objects: cache id -> _cache dict
    class_value_cache,  \* Entity subclass attribute value_cache (populate)
    calls,              \* how often each compute function ran, per target
    stipulated,         \* the value last stipulated, per target (history)
    last,               \* the last operation: its arguments and its outcome
    nops,               \* number of operations performed so far
    threads,            \* the threads of a client: each one's call stack
    phase               \* per entity: resolved, or stipulated after a resolve

vars == <<globals, sessions, heap, class_value_cache, calls, stipulated,
          last, nops, threads, phase>>

(***************************************************************************)
(* Bounds of the model.                                                    *)
(***************************************************************************)
\* operations performed in one behaviour
MaxOps == 3
\* operations performed in one behaviour that includes dump
MaxDumpOps == 2
\* frames of calculate_feature_value the interpreter allows before it
\* raises RecursionError (sys.getrecursionlimit() in CPython)
RecursionLimit == 5
\* threads of a client that resolve features at the same time
NumThreads == 2

(***************************************************************************)
(* Module-level definitions of fs.py.                                      *)
(***************************************************************************)
\* NO_VALUE = "__NO_VALUE__": a sentinel that is no float
NO_VALUE == -1

\* the Session objects a client creates
SessionIds == {"s1", "s2"}

\* class Rectangle(Entity), and further Entity subclasses a configuration may
\* define: Node carries a diamond-shaped feature graph, Loop a cyclic one, and
\* R two features whose class names W and WX share a prefix, and Box a feature
\* registered before the feature it depends on (annotations are strings that
\* dependency_classes looks up when it is read)
EntityClasses == <<"Rectangle", "Node", "Loop", "R", "Box">>

\* Feature.__subclasses__(), in definition order
FeatureClasses ==
    <<"Width", "Length", "Area",
      "Base", "Left", "Right", "Top",
      "Leaf", "Selfish", "Ping", "Pong",
      "W", "WX",
      "Volume", "Side">>

Range(s) == {s[i] : i \in 1..Len(s)}

\* Feature.entity
FeatureEntity(f) ==
    CASE f \in {"Width", "Length", "Area"} -> "Rectangle"
      [] f \in {"Base", "Left", "Right", "Top"} -> "Node"
      [] f \in {"Leaf", "Selfish", "Ping", "Pong"} -> "Loop"
      [] f \in {"Volume", "Side"} -> "Box"
      [] OTHER -> "R"

\* Feature.dependency_classes: the annotated parameters of calculate, in
\* declaration order (a class may be listed twice under two parameter names)
dependency_classes(f) ==
    CASE f = "Area"    -> <<"Width", "Length">>
      [] f = "Left"    -> <<"Base">>
      [] f = "Right"   -> <<"Base", "Base">>
      [] f = "Top"     -> <<"Left", "Right">>
      [] f = "Selfish" -> <<"Selfish">>
      [] f = "Ping"    -> <<"Pong">>
      [] f = "Pong"    -> <<"Leaf", "Ping">>
      [] f = "Volume"  -> <<"Side">>
      [] OTHER         -> <<>>

\* Feature.calculate(self, *arguments)
calculate(f, args) ==
    CASE f = "Width"   -> 3
      [] f = "Length"  -> 2
      [] f = "Area"    -> args[1] * args[2]
      [] f = "Base"    -> 2
      [] f = "Left"    -> args[1] + 1
      [] f = "Right"   -> args[1] + args[2]
      [] f = "Top"     -> 10 * args[1] + args[2]
      [] f = "Leaf"    -> 1
      [] f = "Selfish" -> args[1]
      [] f = "Ping"    -> args[1] + 1
      [] f = "Pong"    -> args[1] + args[2]
      [] f = "W"       -> 1
      [] f = "WX"      -> 2
      [] f = "Volume"  -> 4 * args[1]
      [] f = "Side"    -> 2

(***************************************************************************)
(* Raw values and Feature.value_type = float.                              *)
(***************************************************************************)
\* Python's None, as a row of csv.DictReader holds it for a short row
None == "<None>"

\* float(raw): the number a numeric string denotes; ValueError for another
\* string; TypeError for None
float(raw) ==
    CASE raw = "3.0"  -> [err |-> "", value |-> 3]
      [] raw = "3"    -> [err |-> "", value |-> 3]
      [] raw = "2.0"  -> [err |-> "", value |-> 2]
      [] raw = "5"    -> [err |-> "", value |-> 5]
      [] raw = None   -> [err |-> "TypeError", value |-> NO_VALUE]
      [] OTHER        -> [err |-> "ValueError", value |-> NO_VALUE]

value_type(f, raw) == float(raw)

(***************************************************************************)
(* FeatureValueCache: a dict, here a function on the keys it holds.        *)
(***************************************************************************)
EmptyDict == [k \in {} |-> NO_VALUE]

\* FeatureValueCache.__getitem__
CacheGet(D, key) == IF key \in DOMAIN D THEN D[key] ELSE NO_VALUE

\* FeatureValueCache.__setitem__
CacheSet(D, key, value) ==
    [k \in DOMAIN D \cup {key} |-> IF k = key THEN value ELSE D[k]]

\* FeatureValueCache.__contains__
CacheContains(D, key) == key \in DOMAIN D

\* FeatureValueCache.__delitem__ (of a key the dict holds)
CacheDelete(D, key) == [k \in DOMAIN D \ {key} |-> D[k]]

(***************************************************************************)
(* Entity.                                                                 *)
(***************************************************************************)
\* hashlib.md5(s.encode()).hexdigest(): a digest of the string, equal for
\* equal strings and (for inputs this short) different for different ones
md5(s) == <<"md5", s>>

\* a key string that leaves the entity's name out
UniqueWithoutName(cls, f, name) == cls \o f

\* ''.join([self.__class__.__name__, feature_class.__name__, self.name])
Unique(cls, f, name) == cls \o f \o name

\* Entity.get_feature_hash
get_feature_hash(e, f) == md5(Unique(e.cls, f, e.name))

\* an __init__ that sets no value_cache: the instance then reads the class
\* attribute, the cache of the session that populated last
EntityInitClassAttribute(cls, s, name) ==
    [cls |-> cls, session |-> s, name |-> name,
     value_cache |-> IF cls \in DOMAIN class_value_cache
                        /\ class_value_cache[cls] # "unset"
                     THEN class_value_cache[cls]
                     ELSE sessions[s].cache]

\* Entity.__init__: the instance's value_cache is the session's cache
EntityInit(cls, s, name) ==
    [cls |-> cls, session |-> s, name |-> name,
     value_cache |-> sessions[s].cache]

\* the join of get_feature_hash raises TypeError for a name that is None
JoinFails(e) == e.name = None

(***************************************************************************)
(* Entity.calculate_feature_value.  The heap H of cache objects is         *)
(* threaded through the recursion; the outcome records the value returned, *)
(* the error raised (if any), the compute functions invoked in order, the  *)
(* cache keys looked at or written, and the deepest frame.                 *)
(***************************************************************************)
Max(a, b) == IF a >= b THEN a ELSE b

HeapSet(H, c, key, value) == [H EXCEPT ![c] = CacheSet(H[c], key, value)]

Outcome(H, value, err, computed, touched, depth) ==
    [heap |-> H, value |-> value, err |-> err, computed |-> computed,
     touched |-> touched, depth |-> depth]

RECURSIVE calculate_feature_value(_, _, _, _)
RECURSIVE ResolveDependencies(_, _, _, _, _)

\* lines 232-234: the loop over feature_class.dependency_classes, from the
\* i-th dependency on, run in frame d of the recursion
ResolveDependencies(H, e, deps, i, d) ==
    IF i > Len(deps)
    THEN Outcome(H, NO_VALUE, "", <<>>, {}, d)
    ELSE LET r1 == calculate_feature_value(H, e, deps[i], d + 1)
         IN  IF r1.err # ""
             THEN r1
             ELSE LET h  == get_feature_hash(e, deps[i])
                      H1 == HeapSet(r1.heap, e.value_cache, h, r1.value)
                      r2 == ResolveDependencies(H1, e, deps, i + 1, d)
                  IN  Outcome(r2.heap, NO_VALUE, r2.err,
                              r1.computed \o r2.computed,
                              r1.touched \cup {h} \cup r2.touched,
                              Max(r1.depth, r2.depth))

\* the resolver without the store of line 240: the computed value is
\* returned and not cached under the feature's own key
calculate_feature_value_unstored(H, e, f, d) ==
    IF d > RecursionLimit
    THEN Outcome(H, NO_VALUE, "RecursionError", <<>>, {}, d - 1)
    ELSE LET feature_hash == get_feature_hash(e, f)
             D == H[e.value_cache]
         IN  IF CacheContains(D, feature_hash)
             THEN Outcome(H, CacheGet(D, feature_hash), "", <<>>,
                          {feature_hash}, d)
             ELSE LET deps == dependency_classes(f)
                      r == ResolveDependencies(H, e, deps, 1, d)
                      arguments ==
                          [i \in 1..Len(deps) |->
                              CacheGet(r.heap[e.value_cache],
                                       get_feature_hash(e, deps[i]))]
                      value == calculate(f, arguments)
                  IN  IF r.err # ""
                      THEN Outcome(r.heap, NO_VALUE, r.err, r.computed,
                                   r.touched \cup {feature_hash}, r.depth)
                      ELSE Outcome(r.heap, value, "", Append(r.computed, f),
                                   r.touched \cup {feature_hash}, r.depth)

\* the resolver with the arguments passed in reverse order
calculate_feature_value_reversed(H, e, f, d) ==
    IF d > RecursionLimit
    THEN Outcome(H, NO_VALUE, "RecursionError", <<>>, {}, d - 1)
    ELSE LET feature_hash == get_feature_hash(e, f)
             D == H[e.value_cache]
         IN  IF CacheContains(D, feature_hash)
             THEN Outcome(H, CacheGet(D, feature_hash), "", <<>>,
                          {feature_hash}, d)
             ELSE LET deps == dependency_classes(f)
                      r == ResolveDependencies(H, e, deps, 1, d)
                      arguments ==
                          [i \in 1..Len(deps) |->
                              CacheGet(r.heap[e.value_cache],
                                       get_feature_hash(
                                           e, deps[Len(deps) + 1 - i]))]
                      value == calculate(f, arguments)
                  IN  IF r.err # ""
                      THEN Outcome(r.heap, NO_VALUE, r.err, r.computed,
                                   r.touched \cup {feature_hash}, r.depth)
                      ELSE Outcome(HeapSet(r.heap, e.value_cache,
                                           feature_hash, value),
                                   value, "", Append(r.computed, f),
                                   r.touched \cup {feature_hash}, r.depth)

\* the resolver without its cache check: every resolve recomputes
calculate_feature_value_uncached(H, e, f, d) ==
    IF d > RecursionLimit
    THEN Outcome(H, NO_VALUE, "RecursionError", <<>>, {}, d - 1)
    ELSE LET feature_hash == get_feature_hash(e, f)
             deps == dependency_classes(f)
             r == ResolveDependencies(H, e, deps, 1, d)
             arguments ==
                 [i \in 1..Len(deps) |->
                     CacheGet(r.heap[e.value_cache],
                              get_feature_hash(e, deps[i]))]
             value == calculate(f, arguments)
         IN  IF r.err # ""
             THEN Outcome(r.heap, NO_VALUE, r.err, r.computed,
                          r.touched \cup {feature_hash}, r.depth)
             ELSE Outcome(HeapSet(r.heap, e.value_cache, feature_hash, value),
                          value, "", Append(r.computed, f),
                          r.touched \cup {feature_hash}, r.depth)

\* lines 222-241, entered as frame d
calculate_feature_value(H, e, f, d) ==
    IF d > RecursionLimit
    THEN Outcome(H, NO_VALUE, "RecursionError", <<>>, {}, d - 1)
    ELSE LET feature_hash == get_feature_hash(e, f)
             D == H[e.value_cache]
         IN  IF CacheContains(D, feature_hash)
             THEN Outcome(H, CacheGet(D, feature_hash), "", <<>>,
                          {feature_hash}, d)
             ELSE LET deps == dependency_classes(f)
                      r == ResolveDependencies(H, e, deps, 1, d)
                      arguments ==
                          [i \in 1..Len(deps) |->
                              CacheGet(r.heap[e.value_cache],
                                       get_feature_hash(e, deps[i]))]
                      value == calculate(f, arguments)
                  IN  IF r.err # ""
                      THEN Outcome(r.heap, NO_VALUE, r.err, r.computed,
                                   r.touched \cup {feature_hash}, r.depth)
                      ELSE Outcome(HeapSet(r.heap, e.value_cache,
                                           feature_hash, value),
                                   value, "", Append(r.computed, f),
                                   r.touched \cup {feature_hash}, r.depth)

\* a stipulation that keeps a value already cached (dict.setdefault)
stipulate_feature_value_setdefault(H, e, f, raw) ==
    LET coerced == value_type(f, raw)
        h == get_feature_hash(e, f)
    IN  IF coerced.err # ""
        THEN Outcome(H, NO_VALUE, coerced.err, <<>>, {}, 0)
        ELSE IF JoinFails(e)
        THEN Outcome(H, NO_VALUE, "TypeError", <<>>, {}, 0)
        ELSE IF CacheContains(H[e.value_cache], h)
        THEN Outcome(H, coerced.value, "", <<>>, {h}, 0)
        ELSE Outcome(HeapSet(H, e.value_cache, h, coerced.value),
                     coerced.value, "", <<>>, {h}, 0)

\* a stipulation that also invalidates the cached values of the features
\* that list f as a dependency
stipulate_feature_value_invalidating(H, e, f, raw) ==
    LET coerced == value_type(f, raw)
        h == get_feature_hash(e, f)
        dependants == {get_feature_hash(e, g) :
                         g \in {x \in Range(FeatureClasses) :
                                  f \in Range(dependency_classes(x))}}
        D == CacheSet(H[e.value_cache], h, coerced.value)
    IN  IF coerced.err # ""
        THEN Outcome(H, NO_VALUE, coerced.err, <<>>, {}, 0)
        ELSE IF JoinFails(e)
        THEN Outcome(H, NO_VALUE, "TypeError", <<>>, {}, 0)
        ELSE Outcome([H EXCEPT ![e.value_cache] =
                         [k \in DOMAIN D \ (dependants \ {h}) |-> D[k]]],
                     coerced.value, "", <<>>, {h}, 0)

\* a stipulation that claims the key before it coerces the value: a failed
\* coercion leaves the key in the cache, holding no value
stipulate_feature_value_key_first(H, e, f, raw) ==
    LET coerced == value_type(f, raw)
        h == get_feature_hash(e, f)
    IN  IF JoinFails(e)
        THEN Outcome(H, NO_VALUE, "TypeError", <<>>, {}, 0)
        ELSE IF coerced.err # ""
        THEN Outcome(HeapSet(H, e.value_cache, h, NO_VALUE),
                     NO_VALUE, coerced.err, <<>>, {h}, 0)
        ELSE Outcome(HeapSet(H, e.value_cache, h, coerced.value),
                     coerced.value, "", <<>>, {h}, 0)

\* Entity.stipulate_feature_value: the right-hand side value_type(value) is
\* evaluated first, then the key, then the store
stipulate_feature_value(H, e, f, raw) ==
    LET coerced == value_type(f, raw)
        h == get_feature_hash(e, f)
    IN  IF coerced.err # ""
        THEN Outcome(H, NO_VALUE, coerced.err, <<>>, {}, 0)
        ELSE IF JoinFails(e)
        THEN Outcome(H, NO_VALUE, "TypeError", <<>>, {}, 0)
        ELSE Outcome(HeapSet(H, e.value_cache, h, coerced.value),
                     coerced.value, "", <<>>, {h}, 0)

\* Entity.get_features / feature_list: the features of a class, in
\* registration order
feature_list(cls) ==
    SelectSeq(FeatureClasses, LAMBDA f : FeatureEntity(f) = cls)

(***************************************************************************)
(* Session.                                                                *)
(***************************************************************************)
\* Session.__init__: empty lists and a FeatureValueCache of its own (the
\* cache object created by session s is named s in the heap)
SessionInit(s) == [data_sources |-> <<>>, entities |-> <<>>, cache |-> s]

(***************************************************************************)
(* The client's inputs.                                                    *)
(***************************************************************************)
\* the names a client gives its entities
EntityNames == {"a", "b"}

\* the raw values a client stipulates
RawValues == {"3.0", "2.0", "abc"}

\* the configurations: what is defined below the library. Here an Entity
\* subclass with its features and no data source
Configuration(classes, sources) ==
    [entities |-> classes, data_sources |-> sources]

Configurations ==
    {Configuration(<<cls>>, <<>>) : cls \in {"Rectangle", "Node", "Loop"}}

(***************************************************************************)
(* Bookkeeping of the compute-function call counters.                      *)
(***************************************************************************)
Target(s, e, f) == <<s, e.cls, e.name, f>>

Count(C, t) == IF t \in DOMAIN C THEN C[t] ELSE 0

Occurrences(seq, x) == Cardinality({i \in 1..Len(seq) : seq[i] = x})

\* the counters C after the invocations listed in computed (targets)
AddCalls(C, computed) ==
    [t \in DOMAIN C \cup Range(computed) |->
        Count(C, t) + Occurrences(computed, t)]

\* the history M with target t set to value v
Record(M, t, v) == [x \in DOMAIN M \cup {t} |-> IF x = t THEN v ELSE M[x]]

Targets(s, e, fs) == [i \in 1..Len(fs) |-> Target(s, e, fs[i])]

(***************************************************************************)
(* Bookkeeping of the order of the calls on an entity: an entity that was  *)
(* resolved (by calculate_feature_value or __repr__) is "resolved", and    *)
(* "late" once stipulate_feature_value is called on it after that.         *)
(***************************************************************************)
EntityId(s, e) == <<s, e.cls, e.name>>

AfterResolve(P, id) == IF id \in DOMAIN P THEN P ELSE Record(P, id, "resolved")

AfterStipulate(P, id) == IF id \in DOMAIN P THEN Record(P, id, "late") ELSE P

NoOp ==
    [op |-> "init", session |-> "", cls |-> "", name |-> "", feature |-> "",
     raw |-> "", value |-> NO_VALUE, err |-> "", computed |-> <<>>,
     touched |-> {}, depth |-> 0, sources |-> {}, shown |-> <<>>]

(***************************************************************************)
(* Initial state: the sessions are constructed, nothing is cached.         *)
(***************************************************************************)
\* the threads of a client, and a thread that has not called the resolver
ThreadIds == 1..NumThreads

IdleThread ==
    [state |-> "idle", cls |-> "", name |-> "", feature |-> "",
     stack |-> <<>>, result |-> NO_VALUE, missed |-> {}]

InitOver(configs) ==
    /\ globals \in configs
    /\ sessions = [s \in SessionIds |-> SessionInit(s)]
    /\ heap = [c \in SessionIds |-> EmptyDict]
    /\ class_value_cache = [cls \in Range(EntityClasses) |-> "unset"]
    /\ calls = <<>>
    /\ stipulated = <<>>
    /\ last = NoOp
    /\ nops = 0
    /\ threads = [t \in ThreadIds |-> IdleThread]
    /\ phase = <<>>

Init == InitOver(Configurations)

(***************************************************************************)
(* Operations of a client.                                                 *)
(***************************************************************************)
\* entity = cls(session=s, name=name); entity.calculate_feature_value(f)
Resolve(s, cls, name, f) ==
    /\ nops < MaxOps
    /\ cls \in Range(globals.entities)
    /\ FeatureEntity(f) = cls
    /\ LET e == EntityInit(cls, s, name)
           r == calculate_feature_value(heap, e, f, 1)
       IN  /\ heap' = r.heap
           /\ calls' = AddCalls(calls, Targets(s, e, r.computed))
           /\ last' = [op |-> "resolve", session |-> s, cls |-> cls,
                       name |-> name, feature |-> f, raw |-> "",
                       value |-> r.value, err |-> r.err,
                       computed |-> Targets(s, e, r.computed),
                       touched |-> r.touched, depth |-> r.depth,
                       sources |-> {}, shown |-> <<>>]
           /\ phase' = AfterResolve(phase, EntityId(s, e))
    /\ nops' = nops + 1
    /\ UNCHANGED <<globals, sessions, class_value_cache, stipulated, threads>>

\* entity = cls(session=s, name=name); entity.stipulate_feature_value(f, raw)
Stipulate(s, cls, name, f, raw) ==
    /\ nops < MaxOps
    /\ cls \in Range(globals.entities)
    /\ FeatureEntity(f) = cls
    /\ LET e == EntityInit(cls, s, name)
           r == stipulate_feature_value(heap, e, f, raw)
       IN  /\ heap' = r.heap
           /\ stipulated' = IF r.err = ""
                            THEN Record(stipulated, Target(s, e, f), r.value)
                            ELSE stipulated
           /\ last' = [op |-> "stipulate", session |-> s, cls |-> cls,
                       name |-> name, feature |-> f, raw |-> raw,
                       value |-> r.value, err |-> r.err,
                       computed |-> <<>>,
                       touched |-> r.touched, depth |-> r.depth,
                       sources |-> {}, shown |-> <<>>]
           /\ phase' = AfterStipulate(phase, EntityId(s, e))
    /\ nops' = nops + 1
    /\ UNCHANGED <<globals, sessions, class_value_cache, calls, threads>>

ResolveIn(S, N) ==
    \E s \in S, cls \in Range(EntityClasses), name \in N,
       f \in Range(FeatureClasses) : Resolve(s, cls, name, f)

StipulateIn(S, N) ==
    \E s \in S, cls \in Range(EntityClasses), name \in N,
       f \in Range(FeatureClasses), raw \in RawValues :
        Stipulate(s, cls, name, f, raw)

\* a client that resolves and stipulates features in one session
Next ==
    \/ ResolveIn({"s1"}, EntityNames)
    \/ StipulateIn({"s1"}, EntityNames)

Spec == Init /\ [][Next]_vars

(***************************************************************************)
(* The same client with class, feature and entity names that share         *)
(* prefixes: configuration R with features W and WX.                       *)
(***************************************************************************)
PrefixNames == {"a", "Xa"}

InitHash == InitOver({Configuration(<<"R">>, <<>>)})

NextHash ==
    \/ ResolveIn({"s1"}, PrefixNames)
    \/ StipulateIn({"s1"}, PrefixNames)

SpecHash == InitHash /\ [][NextHash]_vars

(***************************************************************************)
(* DataSource: a name, the rows yield_data produces (each a dict from      *)
(* column name to string) and the list entity_feature_mappings.            *)
(***************************************************************************)
\* DataSource.add_entity_feature_mapping: one mapping
Mapping(feature, feature_key, name_key) ==
    [feature |-> feature, feature_key |-> feature_key, name_key |-> name_key]

DataSource(name, mappings, rows) ==
    [name |-> name, entity_feature_mappings |-> mappings, rows |-> rows]

\* DataSource.has_entity
has_entity(ds, cls) ==
    \E i \in 1..Len(ds.entity_feature_mappings) :
        FeatureEntity(ds.entity_feature_mappings[i].feature) = cls

\* DataSource.entity_name_keys: a set of column names
entity_name_keys(ds, cls) ==
    {ds.entity_feature_mappings[i].name_key :
        i \in {j \in 1..Len(ds.entity_feature_mappings) :
                 FeatureEntity(ds.entity_feature_mappings[j].feature) = cls}}

\* only the first mapping on the name column (a return in place of yield)
first_entity_feature_mapping_for_name_key(ds, name_key) ==
    SubSeq(SelectSeq(ds.entity_feature_mappings,
                     LAMBDA m : m.name_key = name_key), 1, 1)

\* DataSource.entity_feature_mapping_for_name_key: every mapping on that
\* name column, whatever the entity class of its feature
entity_feature_mapping_for_name_key(ds, name_key) ==
    SelectSeq(ds.entity_feature_mappings, LAMBDA m : m.name_key = name_key)

\* Session.data_sources_with_entity
data_sources_with_entity(sess, cls) ==
    SelectSeq(sess.data_sources, LAMBDA ds : has_entity(ds, cls))

(***************************************************************************)
(* Entity.__repr__: resolves every feature of the entity's class in        *)
(* registration order.                                                     *)
(***************************************************************************)
RECURSIVE ReprFrom(_, _, _, _)
ReprFrom(H, e, fs, i) ==
    IF i > Len(fs)
    THEN Outcome(H, NO_VALUE, "", <<>>, {}, 0)
    ELSE LET r1 == calculate_feature_value(H, e, fs[i], 1)
         IN  IF r1.err # ""
             THEN r1
             ELSE LET r2 == ReprFrom(r1.heap, e, fs, i + 1)
                  IN  Outcome(r2.heap, NO_VALUE, r2.err,
                              r1.computed \o r2.computed,
                              r1.touched \cup r2.touched,
                              Max(r1.depth, r2.depth))

\* a __repr__ that shows the first feature only
ReprFirstFeature(H, e) == ReprFrom(H, e, SubSeq(feature_list(e.cls), 1, 1), 1)

Repr(H, e) == ReprFrom(H, e, feature_list(e.cls), 1)

\* the text __repr__ builds: a pair of feature and value per feature, in the
\* order of the loop (nothing is returned when a resolve raises)
RECURSIVE ReprOutputFrom(_, _, _, _)
ReprOutputFrom(H, e, fs, i) ==
    IF i > Len(fs)
    THEN <<>>
    ELSE LET r1 == calculate_feature_value(H, e, fs[i], 1)
         IN  IF r1.err # ""
             THEN <<>>
             ELSE <<<<fs[i], r1.value>>>>
                  \o ReprOutputFrom(r1.heap, e, fs, i + 1)

ReprOutput(H, e) == ReprOutputFrom(H, e, feature_list(e.cls), 1)

(***************************************************************************)
(* A client that also materializes entities.                               *)
(***************************************************************************)
\* entity = cls(session=s, name=name); repr(entity)
Materialize(s, cls, name) ==
    /\ nops < MaxOps
    /\ cls \in Range(globals.entities)
    /\ LET e == EntityInit(cls, s, name)
           r == Repr(heap, e)
       IN  /\ heap' = r.heap
           /\ calls' = AddCalls(calls, Targets(s, e, r.computed))
           /\ last' = [op |-> "repr", session |-> s, cls |-> cls,
                       name |-> name, feature |-> "", raw |-> "",
                       value |-> NO_VALUE, err |-> r.err,
                       computed |-> Targets(s, e, r.computed),
                       touched |-> r.touched, depth |-> r.depth,
                       sources |-> {},
                       shown |-> IF r.err = "" THEN ReprOutput(heap, e)
                                 ELSE <<>>]
           /\ phase' = AfterResolve(phase, EntityId(s, e))
    /\ nops' = nops + 1
    /\ UNCHANGED <<globals, sessions, class_value_cache, stipulated, threads>>

MaterializeIn(S, N) ==
    \E s \in S, cls \in Range(EntityClasses), name \in N :
        Materialize(s, cls, name)

\* entity classes with features only; Box registers Volume before Side
ReprConfigurations ==
    {Configuration(<<cls>>, <<>>) : cls \in {"Rectangle", "Node", "Loop", "Box"}}

InitRepr == InitOver(ReprConfigurations)

NextRepr ==
    \/ ResolveIn({"s1"}, EntityNames)
    \/ StipulateIn({"s1"}, EntityNames)
    \/ MaterializeIn({"s1"}, EntityNames)

SpecRepr == InitRepr /\ [][NextRepr]_vars

(***************************************************************************)
(* Session.dump.  The nested loops are unrolled into the list of steps     *)
(* they perform, which is then run until a step raises.                    *)
(***************************************************************************)
RECURSIVE Concat(_)
Concat(seqs) == IF seqs = <<>> THEN <<>> ELSE Head(seqs) \o Concat(Tail(seqs))

Step(kind, row, name_key, mapping) ==
    [kind |-> kind, row |-> row, name_key |-> name_key, mapping |-> mapping]

NoMapping == Mapping("", "", "")

\* lines 321-333 for one row and one name key: the lookup of the name, a
\* stipulation per mapping on that name key, and the print of the entity
NameKeySteps(ds, row, name_key) ==
    LET ms == entity_feature_mapping_for_name_key(ds, name_key)
    IN  <<Step("name", row, name_key, NoMapping)>>
        \o [i \in 1..Len(ms) |-> Step("stipulate", row, name_key, ms[i])]
        \o <<Step("print", row, name_key, NoMapping)>>

\* lines 319-333 for one data source and one entity class; a set has no
\* order of its own, so the name keys are visited in the order given
DataSourceSteps(ds, cls, order) ==
    LET keys == SelectSeq(order, LAMBDA k : k \in entity_name_keys(ds, cls))
    IN  Concat([r \in 1..Len(ds.rows) |->
            Concat([k \in 1..Len(keys) |->
                NameKeySteps(ds, ds.rows[r], keys[k])])])

\* lines 316-333
DumpSteps(sess, order) ==
    Concat([c \in 1..Len(sess.entities) |->
        LET dss == data_sources_with_entity(sess, sess.entities[c])
        IN  Concat([d \in 1..Len(dss) |->
                DataSourceSteps(dss[d], sess.entities[c], order)])])

\* the data sources the loops of dump go through
DumpSources(sess) ==
    {ds \in Range(sess.data_sources) :
        \E cls \in Range(sess.entities) : has_entity(ds, cls)}

DumpState(H, err, computed, M, entity, P) ==
    [heap |-> H, err |-> err, computed |-> computed, stipulated |-> M,
     entity |-> entity, phase |-> P]

\* one step of dump in session s; a missing key of the row dict raises
\* KeyError. An error raised inside __repr__ is taken to leave rich.print.
RunStep(st, s, step) ==
    CASE step.kind = "name" ->
            IF step.name_key \in DOMAIN step.row
            THEN st
            ELSE [st EXCEPT !.err = "KeyError"]
      [] step.kind = "stipulate" ->
            IF step.mapping.feature_key \notin DOMAIN step.row
            THEN [st EXCEPT !.err = "KeyError"]
            ELSE LET f == step.mapping.feature
                     e == EntityInit(FeatureEntity(f), s,
                                     step.row[step.name_key])
                     r == stipulate_feature_value(
                              st.heap, e, f,
                              step.row[step.mapping.feature_key])
                 IN  DumpState(r.heap, r.err, st.computed,
                               IF r.err = ""
                               THEN Record(st.stipulated, Target(s, e, f),
                                           r.value)
                               ELSE st.stipulated,
                               e, AfterStipulate(st.phase, EntityId(s, e)))
      [] step.kind = "print" ->
            LET r == Repr(st.heap, st.entity)
            IN  DumpState(r.heap, r.err,
                          st.computed \o Targets(s, st.entity, r.computed),
                          st.stipulated, st.entity,
                          AfterResolve(st.phase, EntityId(s, st.entity)))

RECURSIVE RunSteps(_, _, _, _)
RunSteps(st, s, steps, i) ==
    IF i > Len(steps) \/ st.err # ""
    THEN st
    ELSE RunSteps(RunStep(st, s, steps[i]), s, steps, i + 1)

\* Session.dump
dump(H, M, P, s, order) ==
    RunSteps(DumpState(H, "", <<>>, M, EntityInit("", s, ""), P), s,
             DumpSteps(sessions[s], order), 1)

(***************************************************************************)
(* The data sources of the configurations.                                 *)
(***************************************************************************)
\* rectangle_size_data_source < (Width, "w_col", "rectangle_id") and
\* < (Length, "len_col", "rectangle_id")
RectangleMappings ==
    <<Mapping("Width", "w_col", "rectangle_id"),
      Mapping("Length", "len_col", "rectangle_id")>>

\* Width and Length mapped on two different name columns
SplitMappings ==
    <<Mapping("Width", "w_col", "rectangle_id"),
      Mapping("Length", "len_col", "other_id")>>

Row3(k1, v1, k2, v2, k3, v3) == (k1 :> v1) @@ (k2 :> v2) @@ (k3 :> v3)

RectangleRow(id, w, len) ==
    Row3("rectangle_id", id, "w_col", w, "len_col", len)

RectangleSources ==
    { \* two rows naming two rectangles
      DataSource("rectangle_size", RectangleMappings,
                 <<RectangleRow("a", "3.0", "2.0"),
                   RectangleRow("b", "5", "3.0")>>),
      \* one mapping: the width only
      DataSource("widths", <<Mapping("Width", "w_col", "rectangle_id")>>,
                 <<RectangleRow("a", "3.0", "2.0"),
                   RectangleRow("b", "5", "3.0")>>),
      \* the second row has no len_col
      DataSource("no_feature_column", RectangleMappings,
                 <<RectangleRow("a", "3.0", "2.0"),
                   ("rectangle_id" :> "b") @@ ("w_col" :> "5")>>),
      \* the second row has no rectangle_id
      DataSource("no_name_column", RectangleMappings,
                 <<RectangleRow("a", "3.0", "2.0"),
                   ("w_col" :> "5") @@ ("len_col" :> "3")>>),
      \* a short line of a CSV file: csv.DictReader fills in None
      DataSource("short_row", RectangleMappings,
                 <<RectangleRow("a", "3.0", "2.0"),
                   RectangleRow("b", "5", None)>>),
      \* a value that is no number
      DataSource("bad_value", RectangleMappings,
                 <<RectangleRow("a", "3.0", "2.0"),
                   RectangleRow("b", "abc", "3")>>),
      \* one name in two rows
      DataSource("repeated_name", RectangleMappings,
                 <<RectangleRow("a", "3.0", "2.0"),
                   RectangleRow("a", "5", "2.0")>>),
      \* one row naming two rectangles, under two name columns
      DataSource("two_name_columns", SplitMappings,
                 <<RectangleRow("a", "5", "3") @@ ("other_id" :> "b")>>),
      \* one row naming the same rectangle under two name columns
      DataSource("split_name_columns", SplitMappings,
                 <<RectangleRow("a", "5", "3") @@ ("other_id" :> "a")>>),
      \* one feature mapped on two columns
      DataSource("width_mapped_twice",
                 <<Mapping("Width", "w_col", "rectangle_id"),
                   Mapping("Width", "w2_col", "rectangle_id")>>,
                 <<RectangleRow("a", "3.0", "2.0") @@ ("w2_col" :> "5")>>) }

\* a source for the class Node
NodeSource ==
    DataSource("node_bases", <<Mapping("Base", "base_col", "node_id")>>,
               <<("node_id" :> "a") @@ ("base_col" :> "3"),
                 ("node_id" :> "b") @@ ("base_col" :> "5")>>)

\* a source with features of two classes on one name column
MixedSource ==
    DataSource("mixed",
               <<Mapping("Width", "w_col", "rectangle_id"),
                 Mapping("Base", "base_col", "rectangle_id")>>,
               <<RectangleRow("a", "5", "3") @@ ("base_col" :> "3")>>)

DumpConfigurations ==
    {Configuration(<<"Rectangle">>, <<ds>>) : ds \in RectangleSources}
    \cup {Configuration(<<"Node">>, <<NodeSource>>),
          Configuration(<<"Rectangle", "Node">>, <<MixedSource>>)}

\* the orders in which a set of name keys may be iterated
NameKeyOrders ==
    {<<"rectangle_id", "other_id", "node_id">>,
     <<"other_id", "rectangle_id", "node_id">>}

(***************************************************************************)
(* Operations on a session.                                                *)
(***************************************************************************)
\* Session.__enter__ / populate: registers the globals' data sources and
\* Entity subclasses, and sets each class's value_cache attribute
Populate(s) ==
    /\ sessions[s].entities = <<>>
    /\ sessions' =
          [sessions EXCEPT
              ![s].data_sources = @ \o globals.data_sources,
              ![s].entities = @ \o globals.entities]
    /\ class_value_cache' =
          [cls \in DOMAIN class_value_cache |->
              IF cls \in Range(globals.entities)
              THEN sessions[s].cache
              ELSE class_value_cache[cls]]
    /\ UNCHANGED <<globals, heap, calls, stipulated, last, nops, threads,
                   phase>>

\* session.dump()
Dump(s, order) ==
    /\ nops < MaxOps
    /\ LET r == dump(heap, stipulated, phase, s, order)
       IN  /\ heap' = r.heap
           /\ phase' = r.phase
           /\ calls' = AddCalls(calls, r.computed)
           /\ stipulated' = r.stipulated
           /\ last' = [op |-> "dump", session |-> s, cls |-> "",
                       name |-> "", feature |-> "", raw |-> "",
                       value |-> NO_VALUE, err |-> r.err,
                       computed |-> r.computed, touched |-> {},
                       depth |-> 0, sources |-> DumpSources(sessions[s]),
                       shown |-> <<>>]
    /\ nops' = nops + 1
    /\ UNCHANGED <<globals, sessions, class_value_cache, threads>>

PopulateIn(S) == \E s \in S : Populate(s)

DumpIn(S) == \E s \in S, order \in NameKeyOrders : Dump(s, order)

\* a client that populates one session, dumps it and reads features
InitDump == InitOver(DumpConfigurations)

NextDump ==
    \/ nops < MaxDumpOps /\ PopulateIn({"s1"})
    \/ nops < MaxDumpOps /\ DumpIn({"s1"})
    \/ nops < MaxDumpOps /\ ResolveIn({"s1"}, EntityNames)
    \/ nops < MaxDumpOps /\ StipulateIn({"s1"}, EntityNames)

SpecDump == InitDump /\ [][NextDump]_vars

\* two sessions over the rectangle configuration
InitSessions ==
    InitOver({Configuration(<<"Rectangle">>, <<ds>>) :
                ds \in {x \in RectangleSources : x.name = "rectangle_size"}})

NextSessions ==
    \/ nops < MaxDumpOps /\ PopulateIn(SessionIds)
    \/ nops < MaxDumpOps /\ DumpIn(SessionIds)
    \/ nops < MaxDumpOps /\ ResolveIn(SessionIds, EntityNames)
    \/ nops < MaxDumpOps /\ StipulateIn(SessionIds, EntityNames)

SpecSessions == InitSessions /\ [][NextSessions]_vars

(***************************************************************************)
(* Threads.  A thread runs Entity.calculate_feature_value on the shared    *)
(* cache of session s1, one dict operation or compute call at a time, all  *)
(* on one entity; the other threads may run between any two steps.  A      *)
(* frame of the call stack holds the feature, the position in the          *)
(* function, the index in the loop over the dependencies and the local     *)
(* variable that holds a value.                                            *)
(***************************************************************************)
Frame(f) == [feature |-> f, pc |-> "check", i |-> 1, value |-> NO_VALUE]

ThreadEntity(t) == EntityInit(threads[t].cls, "s1", threads[t].name)

TopFrame(t) == threads[t].stack[Len(threads[t].stack)]

\* the stack with its top frame replaced
SetTop(stack, fr) == [stack EXCEPT ![Len(stack)] = fr]

\* lines 232-233, the control of the loop over the dependencies, which
\* touches nothing shared: the next dependency is resolved by a recursive
\* call, and after the last one the arguments are collected
Advance(stack) ==
    LET fr == stack[Len(stack)]
        deps == dependency_classes(fr.feature)
    IN  IF fr.pc # "dependencies"
        THEN stack
        ELSE IF fr.i > Len(deps)
        THEN SetTop(stack, [fr EXCEPT !.pc = "compute"])
        ELSE Append(stack, Frame(deps[fr.i]))

\* the thread after its top frame has returned value v: the caller goes on
\* at line 234 with dependency_value = v, or the thread is done
Returned(th, v) ==
    IF Len(th.stack) = 1
    THEN [th EXCEPT !.state = "done", !.stack = <<>>, !.result = v]
    ELSE LET callers == SubSeq(th.stack, 1, Len(th.stack) - 1)
             caller == callers[Len(callers)]
         IN  [th EXCEPT !.stack = SetTop(callers,
                 [caller EXCEPT !.pc = "store_dependency", !.value = v])]

\* thread t calls entity.calculate_feature_value(f)
ThreadCall(t, cls, name, f) ==
    /\ threads[t].state = "idle"
    /\ cls \in Range(globals.entities)
    /\ FeatureEntity(f) = cls
    /\ threads' = [threads EXCEPT ![t] =
          [@ EXCEPT !.state = "running", !.cls = cls, !.name = name,
                    !.feature = f, !.stack = <<Frame(f)>>]]
    /\ phase' = AfterResolve(phase, EntityId("s1", EntityInit(cls, "s1", name)))
    /\ UNCHANGED <<globals, sessions, heap, class_value_cache, calls,
                   stipulated, last, nops>>

\* lines 228-230: the contains-check, and the read of a value that is there
ThreadCheck(t) ==
    /\ threads[t].state = "running"
    /\ TopFrame(t).pc = "check"
    /\ LET e == ThreadEntity(t)
           fr == TopFrame(t)
           feature_hash == get_feature_hash(e, fr.feature)
           D == heap[e.value_cache]
       IN  threads' = [threads EXCEPT ![t] =
               IF CacheContains(D, feature_hash)
               THEN Returned(@, CacheGet(D, feature_hash))
               ELSE [@ EXCEPT
                       !.stack = Advance(SetTop(@,
                                     [fr EXCEPT !.pc = "dependencies"])),
                       !.missed = @ \cup {fr.feature}]]
    /\ UNCHANGED <<globals, sessions, heap, class_value_cache, calls,
                   stipulated, last, nops, phase>>

\* line 234: the value the recursive call returned is stored under the
\* dependency's key
ThreadStoreDependency(t) ==
    /\ threads[t].state = "running"
    /\ TopFrame(t).pc = "store_dependency"
    /\ LET e == ThreadEntity(t)
           fr == TopFrame(t)
           dependency_class == dependency_classes(fr.feature)[fr.i]
       IN  /\ heap' = HeapSet(heap, e.value_cache,
                              get_feature_hash(e, dependency_class), fr.value)
           /\ threads' = [threads EXCEPT ![t].stack =
                 Advance(SetTop(@, [fr EXCEPT !.pc = "dependencies",
                                              !.i = @ + 1,
                                              !.value = NO_VALUE]))]
    /\ UNCHANGED <<globals, sessions, class_value_cache, calls, stipulated,
                   last, nops, phase>>

\* a compute step that looks into the cache again and takes a value another
\* thread has stored meanwhile
ThreadComputeRechecked(t) ==
    /\ threads[t].state = "running"
    /\ TopFrame(t).pc = "compute"
    /\ LET e == ThreadEntity(t)
           fr == TopFrame(t)
           deps == dependency_classes(fr.feature)
           D == heap[e.value_cache]
           feature_hash == get_feature_hash(e, fr.feature)
           arguments ==
               [i \in 1..Len(deps) |->
                   CacheGet(D, get_feature_hash(e, deps[i]))]
       IN  IF CacheContains(D, feature_hash)
           THEN /\ threads' = [threads EXCEPT ![t].stack =
                      SetTop(@, [fr EXCEPT !.pc = "store",
                                     !.value = CacheGet(D, feature_hash)])]
                /\ calls' = calls
           ELSE /\ threads' = [threads EXCEPT ![t].stack =
                      SetTop(@, [fr EXCEPT !.pc = "store",
                                     !.value = calculate(fr.feature, arguments)])]
                /\ calls' = AddCalls(calls, <<Target("s1", e, fr.feature)>>)
    /\ UNCHANGED <<globals, sessions, heap, class_value_cache, stipulated,
                   last, nops, phase>>

\* lines 235-239: the arguments are read from the cache and the compute
\* function is called
ThreadCompute(t) ==
    /\ threads[t].state = "running"
    /\ TopFrame(t).pc = "compute"
    /\ LET e == ThreadEntity(t)
           fr == TopFrame(t)
           deps == dependency_classes(fr.feature)
           D == heap[e.value_cache]
           arguments ==
               [i \in 1..Len(deps) |->
                   CacheGet(D, get_feature_hash(e, deps[i]))]
       IN  /\ threads' = [threads EXCEPT ![t].stack =
                 SetTop(@, [fr EXCEPT !.pc = "store",
                                !.value = calculate(fr.feature, arguments)])]
           /\ calls' = AddCalls(calls, <<Target("s1", e, fr.feature)>>)
    /\ UNCHANGED <<globals, sessions, heap, class_value_cache, stipulated,
                   last, nops, phase>>

\* lines 240-241: the value is stored under the feature's key and returned
ThreadStore(t) ==
    /\ threads[t].state = "running"
    /\ TopFrame(t).pc = "store"
    /\ LET e == ThreadEntity(t)
           fr == TopFrame(t)
       IN  /\ heap' = HeapSet(heap, e.value_cache,
                              get_feature_hash(e, fr.feature), fr.value)
           /\ threads' = [threads EXCEPT ![t] = Returned(@, fr.value)]
    /\ UNCHANGED <<globals, sessions, class_value_cache, calls, stipulated,
                   last, nops, phase>>

\* the configurations of the threaded client: acyclic feature graphs
ThreadConfigurations ==
    {Configuration(<<cls>>, <<>>) : cls \in {"Rectangle", "Node"}}

InitThreads == InitOver(ThreadConfigurations)

NextThreads ==
    \/ \E t \in ThreadIds, cls \in Range(EntityClasses),
          f \in Range(FeatureClasses) : ThreadCall(t, cls, "a", f)
    \/ \E t \in ThreadIds : ThreadCheck(t)
    \/ \E t \in ThreadIds : ThreadStoreDependency(t)
    \/ \E t \in ThreadIds : ThreadCompute(t)
    \/ \E t \in ThreadIds : ThreadStore(t)

SpecThreads == InitThreads /\ [][NextThreads]_vars

(***************************************************************************)
(* Vocabulary of the properties.                                           *)
(***************************************************************************)
\* the entity, cache key and cache object an operation record l is about
EntityOf(l) == EntityInit(l.cls, l.session, l.name)
KeyOf(l) == get_feature_hash(EntityOf(l), l.feature)
DictOf(H, l) == H[EntityOf(l).value_cache]
TargetOf(l) == <<l.session, l.cls, l.name, l.feature>>

\* the dict of cache object c in heap H, seen through entity e
DictFor(H, e) == H[e.value_cache]

\* the features reachable from the set S along dependency_classes
RECURSIVE ReachFrom(_)
ReachFrom(S) ==
    LET N == S \cup UNION {Range(dependency_classes(g)) : g \in S}
    IN  IF N = S THEN S ELSE ReachFrom(N)

\* the transitive dependency closure of f, f included
Closure(f) == ReachFrom({f})

\* f reaches a feature that depends, directly or transitively, on itself
Cyclic(f) ==
    \E g \in Closure(f) : g \in ReachFrom(Range(dependency_classes(g)))

\* the value the resolver contract gives f on e against the dict D: the
\* cached value if there is one, else compute applied to the dependencies'
\* values in declared order
RECURSIVE Expected(_, _, _)
Expected(D, e, f) ==
    LET h == get_feature_hash(e, f)
        deps == dependency_classes(f)
    IN  IF h \in DOMAIN D
        THEN D[h]
        ELSE calculate(f, [i \in 1..Len(deps) |-> Expected(D, e, deps[i])])

(***************************************************************************)
(* C1. A resolve of a feature that is cached for the entity returns the    *)
(* cached value, invokes no compute function and leaves the cache          *)
(* unchanged; so a second resolve right after a first returns the same     *)
(* value and computes nothing.                                             *)
(***************************************************************************)
C1_CachedResolveIsIdempotent ==
    [][/\ (/\ last'.op = "resolve"
           /\ CacheContains(DictOf(heap, last'), KeyOf(last')))
          => /\ last'.err = ""
             /\ last'.value = CacheGet(DictOf(heap, last'), KeyOf(last'))
             /\ last'.computed = <<>>
             /\ calls' = calls
             /\ heap' = heap
       /\ (/\ last.op = "resolve" /\ last.err = ""
           /\ last'.op = "resolve"
           /\ TargetOf(last') = TargetOf(last))
          => /\ last'.value = last.value
             /\ last'.computed = <<>>]_vars

\* a resolve answered from the cache of a feature an earlier resolve computed
C1_Witness ==
    /\ last.op = "resolve"
    /\ last.err = ""
    /\ last.computed = <<>>
    /\ Count(calls, TargetOf(last)) = 1
    /\ dependency_classes(last.feature) # <<>>

(***************************************************************************)
(* C2. Without stipulations on an entity and with an acyclic graph, the    *)
(* compute function of every feature runs at most once for the entity over *)
(* any sequence of resolves; and a resolve of f that finds none of the     *)
(* entity's features cached runs compute exactly once for every feature in *)
(* the dependency closure of f (diamonds and double listings included).    *)
(***************************************************************************)
\* no target of the entity of target t is in the history M of stipulations
Unstipulated(M, t) ==
    \A x \in DOMAIN M : ~(x[1] = t[1] /\ x[2] = t[2] /\ x[3] = t[3])

\* none of the features of e's class is cached in D
NothingCached(D, e) ==
    \A g \in Range(feature_list(e.cls)) : get_feature_hash(e, g) \notin DOMAIN D

C2_ComputeOnce ==
    [][/\ \A t \in DOMAIN calls' :
            (Unstipulated(stipulated', t) /\ ~Cyclic(t[4])) => calls'[t] <= 1
       /\ (/\ last'.op = "resolve"
           /\ ~Cyclic(last'.feature)
           /\ NothingCached(DictOf(heap, last'), EntityOf(last')))
          => /\ last'.err = ""
             /\ Range(last'.computed) =
                    {<<last'.session, last'.cls, last'.name, g>> :
                        g \in Closure(last'.feature)}
             /\ Len(last'.computed) = Cardinality(Closure(last'.feature))
             /\ \A t \in Range(last'.computed) : calls'[t] = 1]_vars

\* Top resolved from an empty cache: Base, shared by Left and Right and
\* listed twice by Right, is computed once
C2_Witness ==
    /\ last.op = "resolve"
    /\ last.feature = "Top"
    /\ Len(last.computed) = 4
    /\ Count(calls, <<last.session, last.cls, last.name, "Base">>) = 1
    /\ stipulated = <<>>

(***************************************************************************)
(* C3. After a successful stipulation of f on e, every later resolve of f  *)
(* on e returns the stipulated (coerced) value without invoking any        *)
(* compute function and without looking at f's dependencies; no operation  *)
(* invokes f's compute function for e; and a resolve of a feature g that   *)
(* depends on f is computed from the stipulated value of f.                *)
(***************************************************************************)
\* the arguments a resolve of g on e must use: for a stipulated dependency
\* the stipulated value, for another the value cached after the resolve
StipulatedArguments(M, D, s, e, g) ==
    LET deps == dependency_classes(g)
    IN  [i \in 1..Len(deps) |->
            IF Target(s, e, deps[i]) \in DOMAIN M
            THEN M[Target(s, e, deps[i])]
            ELSE CacheGet(D, get_feature_hash(e, deps[i]))]

C3_StipulationPrecedence ==
    [][/\ (last'.op = "resolve" /\ TargetOf(last') \in DOMAIN stipulated)
          => /\ last'.err = ""
             /\ last'.value = stipulated[TargetOf(last')]
             /\ last'.computed = <<>>
             /\ last'.touched = {KeyOf(last')}
       /\ \A t \in DOMAIN stipulated : Count(calls', t) = Count(calls, t)
       /\ (/\ last'.op = "resolve"
           /\ last'.err = ""
           /\ TargetOf(last') \in Range(last'.computed))
          => last'.value =
                calculate(last'.feature,
                          StipulatedArguments(stipulated, DictOf(heap', last'),
                                              last'.session, EntityOf(last'),
                                              last'.feature))]_vars

\* a resolve that returns a stipulated value which compute would not give
C3_Witness ==
    /\ last.op = "resolve"
    /\ TargetOf(last) \in DOMAIN stipulated
    /\ last.value = stipulated[TargetOf(last)]
    /\ last.feature = "Area"
    /\ last.value = 3

(***************************************************************************)
(* C4. A resolve of an uncached feature f returns f's compute function     *)
(* applied to the values of its declared dependencies in declared order,   *)
(* each the value already cached for it or else its own resolved value,    *)
(* and stores what it returns under f's key.                               *)
(***************************************************************************)
C4_DependencyCorrectness ==
    [][(/\ last'.op = "resolve"
        /\ last'.err = ""
        /\ ~CacheContains(DictOf(heap, last'), KeyOf(last')))
       => LET e == EntityOf(last')
              f == last'.feature
              deps == dependency_classes(f)
              D == DictOf(heap, last')
              D1 == DictOf(heap', last')
          IN  /\ last'.value = Expected(D, e, f)
              /\ last'.value =
                    calculate(f, [i \in 1..Len(deps) |->
                                    CacheGet(D1, get_feature_hash(e, deps[i]))])
              /\ CacheContains(D1, KeyOf(last'))
              /\ CacheGet(D1, KeyOf(last')) = last'.value
              /\ \A i \in 1..Len(deps) :
                    LET h == get_feature_hash(e, deps[i])
                    IN  /\ CacheContains(D1, h)
                        /\ CacheContains(D, h) => CacheGet(D1, h) = CacheGet(D, h)
      ]_vars

\* width stipulated 3.0 and length stipulated 2.0: area resolves to 6.0
C4_Witness ==
    /\ last.op = "resolve"
    /\ last.feature = "Area"
    /\ last.value = 6
    /\ <<last.session, last.cls, last.name, "Width">> \in DOMAIN stipulated
    /\ <<last.session, last.cls, last.name, "Length">> \in DOMAIN stipulated
    /\ stipulated[<<last.session, last.cls, last.name, "Width">>] = 3
    /\ stipulated[<<last.session, last.cls, last.name, "Length">>] = 2

(***************************************************************************)
(* C5. A stipulate or resolve on one entity never reads, creates or        *)
(* changes a cache entry of another entity of the same class in the same   *)
(* session: entities with different names keep independent values.         *)
(***************************************************************************)
C5_CacheIsolation ==
    [][last'.op \in {"resolve", "stipulate"}
       => \A n2 \in EntityNames \ {last'.name} :
            \A g \in Range(feature_list(last'.cls)) :
               LET other == EntityInit(last'.cls, last'.session, n2)
                   h == get_feature_hash(other, g)
               IN  /\ h \notin last'.touched
                   /\ CacheContains(DictFor(heap', other), h)
                        = CacheContains(DictFor(heap, other), h)
                   /\ CacheGet(DictFor(heap', other), h)
                        = CacheGet(DictFor(heap, other), h)]_vars

\* two rectangles of one session hold different widths
C5_Witness ==
    LET a == EntityInit("Rectangle", "s1", "a")
        b == EntityInit("Rectangle", "s1", "b")
    IN  /\ CacheGet(DictFor(heap, a), get_feature_hash(a, "Width")) = 3
        /\ CacheGet(DictFor(heap, b), get_feature_hash(b, "Width")) = 2
        /\ last.op = "resolve"
        /\ last.name = "a"
        /\ last.feature = "Width"

(***************************************************************************)
(* C6. The cache key identifies the triple (entity type, feature, entity   *)
(* name): two different triples for which a value was stipulated or        *)
(* computed have different keys, and a resolve returns a value only for a  *)
(* triple that was itself stipulated or computed.                          *)
(***************************************************************************)
KeyOfTarget(t) == get_feature_hash([cls |-> t[2], name |-> t[3]], t[4])

C6_KeyIdentifiesTriple ==
    /\ \A t1, t2 \in DOMAIN stipulated \cup DOMAIN calls :
          (t1 # t2 /\ t1[1] = t2[1]) => KeyOfTarget(t1) # KeyOfTarget(t2)
    /\ (last.op = "resolve" /\ last.err = "")
          => TargetOf(last) \in DOMAIN stipulated \cup DOMAIN calls

(***************************************************************************)
(* C7. A resolve that runs into a self-referential or mutual dependency    *)
(* raises CycleDetectedError before the call stack is exhausted.           *)
(***************************************************************************)
C7_CycleDetected ==
    (last.op = "resolve" /\ Cyclic(last.feature) /\ last.err # "")
        => (last.err = "CycleDetectedError" /\ last.depth < RecursionLimit)

(***************************************************************************)
(* Vocabulary of the hydration properties.                                 *)
(***************************************************************************)
\* the places of a set of data sources: a source, a row and a mapping
Places(sources) ==
    UNION {{<<ds, r, m>> : r \in 1..Len(ds.rows),
                          m \in 1..Len(ds.entity_feature_mappings)} :
           ds \in sources}

PlaceRow(p) == p[1].rows[p[2]]
PlaceMapping(p) == p[1].entity_feature_mappings[p[3]]

\* the entity a place names, as dump constructs it in session s
PlaceEntity(p, s) ==
    EntityInit(FeatureEntity(PlaceMapping(p).feature), s,
               PlaceRow(p)[PlaceMapping(p).name_key])

\* the places that supply feature f of entity e: their row names e under the
\* mapping's name column and the mapping is one of f
Suppliers(sources, s, e, f) ==
    {p \in Places(sources) :
        /\ PlaceMapping(p).name_key \in DOMAIN PlaceRow(p)
        /\ PlaceMapping(p).feature = f
        /\ PlaceEntity(p, s).cls = e.cls
        /\ PlaceEntity(p, s).name = e.name}

\* the places whose stipulation dump stores under the cache key of e and f
Writers(sources, s, e, f) ==
    {p \in Places(sources) :
        /\ PlaceMapping(p).name_key \in DOMAIN PlaceRow(p)
        /\ get_feature_hash(PlaceEntity(p, s), PlaceMapping(p).feature)
              = get_feature_hash(e, f)}

\* the value a place supplies
Supplied(p) ==
    value_type(PlaceMapping(p).feature,
               PlaceRow(p)[PlaceMapping(p).feature_key]).value

\* each entity name occurs in a single row of ds
SingleRowNames(ds) ==
    \A r1, r2 \in 1..Len(ds.rows) :
        \A m1, m2 \in 1..Len(ds.entity_feature_mappings) :
            LET k1 == ds.entity_feature_mappings[m1].name_key
                k2 == ds.entity_feature_mappings[m2].name_key
            IN  (/\ r1 # r2
                 /\ k1 \in DOMAIN ds.rows[r1]
                 /\ k2 \in DOMAIN ds.rows[r2])
                => ds.rows[r1][k1] # ds.rows[r2][k2]

\* some row of ds lacks a column that a mapping of ds names
LacksMappedColumn(ds) ==
    \E r \in 1..Len(ds.rows), m \in 1..Len(ds.entity_feature_mappings) :
        \/ ds.entity_feature_mappings[m].feature_key \notin DOMAIN ds.rows[r]
        \/ ds.entity_feature_mappings[m].name_key \notin DOMAIN ds.rows[r]

\* the step is a resolve in a session whose last operation was a dump that
\* ran to its end
ResolveAfterDump ==
    /\ nops' = nops + 1
    /\ last.op = "dump"
    /\ last.err = ""
    /\ last'.op = "resolve"
    /\ last'.session = last.session

(***************************************************************************)
(* C8 as stated. After a dump that ran to its end, for every row and every *)
(* mapping of a data source whose entity names each occur in a single row, *)
(* a resolve of the mapped feature on the named entity returns the row's   *)
(* value coerced to the feature's type.                                    *)
(***************************************************************************)
C8_HydrationCompleteness_AsStated ==
    [][ResolveAfterDump
       => \A p \in Suppliers({ds \in last.sources : SingleRowNames(ds)},
                             last'.session, EntityOf(last'), last'.feature) :
            /\ last'.err = ""
            /\ last'.value = Supplied(p)]_vars

(***************************************************************************)
(* C8, amended. After a dump that ran to its end, for every row and every  *)
(* mapping of its data sources such that no other row or mapping writes    *)
(* the same cache key, a resolve of the mapped feature on the named entity *)
(* returns the row's value coerced to the feature's type, without          *)
(* computing; the dump itself leaves that value in the cache.              *)
(***************************************************************************)
C8_HydrationCompleteness ==
    [][/\ ResolveAfterDump
          => \A p \in Suppliers(last.sources, last'.session, EntityOf(last'),
                                last'.feature) :
               Writers(last.sources, last'.session, EntityOf(last'),
                       last'.feature) = {p}
               => /\ last'.err = ""
                  /\ last'.value = Supplied(p)
                  /\ last'.computed = <<>>
       /\ (nops' = nops + 1 /\ last'.op = "dump" /\ last'.err = "")
          => \A p \in Places(last'.sources) :
               LET e == PlaceEntity(p, last'.session)
                   f == PlaceMapping(p).feature
               IN  Writers(last'.sources, last'.session, e, f) = {p}
                   => CacheGet(DictFor(heap', e), get_feature_hash(e, f))
                         = Supplied(p)]_vars

\* after the dump of the two-row source, a resolve of length on rectangle b
\* returns 3.0, the float of the string "3.0" (compute would give 2.0)
C8_Witness ==
    /\ last.op = "resolve"
    /\ last.cls = "Rectangle"
    /\ last.name = "b"
    /\ last.feature = "Length"
    /\ last.value = 3
    /\ last.computed = <<>>
    /\ globals.data_sources[1].name = "rectangle_size"
    /\ Count(calls, <<last.session, "Rectangle", "a", "Area">>) = 1

(***************************************************************************)
(* C9. A dump over a data source with a row that lacks a mapped column     *)
(* ends in a MissingColumnError.                                           *)
(***************************************************************************)
C9_MissingColumnError ==
    (/\ last.op = "dump"
     /\ \E ds \in last.sources : LacksMappedColumn(ds))
    => last.err = "MissingColumnError"

(***************************************************************************)
(* C10. Within a session the Entity objects of one class and name share    *)
(* the session's cache: a value stipulated or computed through one object  *)
(* (by the client or by dump) is returned by a resolve through another     *)
(* without recomputation. Sessions have different caches, and an operation *)
(* in one session leaves the cache of every other session unchanged and    *)
(* takes no value from it.                                                 *)
(***************************************************************************)
SessionDict(H, s) == H[sessions[s].cache]

C10_SharedCacheWithinSession ==
    [][/\ (nops' = nops + 1 /\ last'.op = "resolve")
          => LET t == TargetOf(last')
                 h == KeyOfTarget(t)
             IN  /\ t \in DOMAIN stipulated
                      => /\ last'.value = stipulated[t]
                         /\ last'.computed = <<>>
                 /\ (t \in DOMAIN calls /\ t \notin DOMAIN stipulated)
                      => /\ last'.value = CacheGet(SessionDict(heap, t[1]), h)
                         /\ last'.computed = <<>>
                 /\ (t \notin DOMAIN calls /\ t \notin DOMAIN stipulated)
                      => t \in Range(last'.computed)
       /\ (nops' = nops + 1 /\ last'.op \in {"resolve", "stipulate", "dump"})
          => \A s2 \in SessionIds \ {last'.session} :
                /\ sessions[s2].cache # sessions[last'.session].cache
                /\ SessionDict(heap', s2) = SessionDict(heap, s2)]_vars

\* the width 5.0 that dump stipulated for rectangle b in session s1 is
\* returned to the client of s1, and session s2 holds nothing
C10_Witness ==
    /\ last.op = "resolve"
    /\ last.session = "s1"
    /\ last.name = "b"
    /\ last.feature = "Width"
    /\ last.value = 5
    /\ sessions["s2"].entities # <<>>
    /\ SessionDict(heap, "s2") = EmptyDict

(***************************************************************************)
(* C11. After __repr__ of an entity has returned, every feature registered *)
(* for the entity's class is cached for the entity; the text lists the     *)
(* features in registration order, each with the value then cached; and a  *)
(* feature that was cached before (stipulated or computed) is shown with   *)
(* the value it had, is not recomputed and keeps its value.                *)
(***************************************************************************)
\* the features registered for a class, in the order of their definition
RegisteredFeatures(cls) ==
    LET idx == {i \in 1..Len(FeatureClasses) : FeatureEntity(FeatureClasses[i]) = cls}
        RECURSIVE Ordered(_)
        Ordered(I) ==
            IF I = {}
            THEN <<>>
            ELSE LET m == CHOOSE i \in I : \A j \in I : i <= j
                 IN  <<FeatureClasses[m]>> \o Ordered(I \ {m})
    IN  Ordered(idx)

C11_MaterializationResolvesAll ==
    [][(nops' = nops + 1 /\ last'.op = "repr" /\ last'.err = "")
       => LET e  == EntityOf(last')
              fs == RegisteredFeatures(last'.cls)
              D  == DictOf(heap, last')
              D1 == DictOf(heap', last')
          IN  /\ Len(last'.shown) = Len(fs)
              /\ \A i \in 1..Len(fs) :
                    LET h == get_feature_hash(e, fs[i])
                    IN  /\ CacheContains(D1, h)
                        /\ last'.shown[i] = <<fs[i], CacheGet(D1, h)>>
                        /\ CacheContains(D, h)
                             => /\ CacheGet(D1, h) = CacheGet(D, h)
                                /\ Target(last'.session, e, fs[i])
                                      \notin Range(last'.computed)
                        /\ ~CacheContains(D, h)
                             => Occurrences(last'.computed,
                                            Target(last'.session, e, fs[i])) = 1
      ]_vars

\* a rectangle whose length was stipulated 3.0 is shown as width 3.0,
\* length 3.0, area 9.0; the length is not computed
C11_Witness ==
    /\ last.op = "repr"
    /\ last.err = ""
    /\ last.shown = <<<<"Width", 3>>, <<"Length", 3>>, <<"Area", 9>>>>
    /\ <<last.session, "Rectangle", last.name, "Length">> \in DOMAIN stipulated
    /\ Count(calls, <<last.session, "Rectangle", last.name, "Length">>) = 0
    /\ Len(last.computed) = 2

(***************************************************************************)
(* C12. On an acyclic part of the dependency graph, whatever the cache     *)
(* holds, a resolve of f returns a value, leaves f and every feature it    *)
(* reached cached, and nests no deeper than the longest dependency chain   *)
(* that starts at f (counted in features, as frames of the resolver).      *)
(***************************************************************************)
\* the number of features on the longest dependency chain starting at f
RECURSIVE ChainLength(_)
ChainLength(f) ==
    LET deps == dependency_classes(f)
    IN  IF deps = <<>>
        THEN 1
        ELSE 1 + (CHOOSE n \in {ChainLength(deps[i]) : i \in 1..Len(deps)} :
                    \A i \in 1..Len(deps) : ChainLength(deps[i]) <= n)

C12_TerminationOnAcyclicGraphs ==
    [][(last'.op = "resolve" /\ ~Cyclic(last'.feature))
       => LET D1 == DictOf(heap', last')
          IN  /\ last'.err = ""
              /\ last'.value # NO_VALUE
              /\ CacheContains(D1, KeyOf(last'))
              /\ CacheGet(D1, KeyOf(last')) = last'.value
              /\ \A h \in last'.touched : CacheContains(D1, h)
              /\ \A t \in Range(last'.computed) :
                    CacheContains(D1, KeyOfTarget(t))
              /\ last'.depth >= 1
              /\ last'.depth <= ChainLength(last'.feature)]_vars

\* Top resolved through Left down to Base: three frames for a chain of three
C12_Witness ==
    /\ last.op = "resolve"
    /\ last.feature = "Top"
    /\ last.err = ""
    /\ last.depth = 3
    /\ ChainLength("Top") = 3
    /\ stipulated # <<>>

(***************************************************************************)
(* Vocabulary of the cycle properties.                                     *)
(***************************************************************************)
\* f depends, directly or transitively, on itself
OnCycle(f) == f \in ReachFrom(Range(dependency_classes(f)))

\* the dependencies of the features in S that are not cached in D
UncachedDependencies(D, e, S) ==
    {g \in UNION {Range(dependency_classes(x)) : x \in S} :
        ~CacheContains(D, get_feature_hash(e, g))}

\* the features reachable from S along dependencies through features that
\* are not cached in D
RECURSIVE UncachedReach(_, _, _)
UncachedReach(D, e, S) ==
    LET N == S \cup UncachedDependencies(D, e, S)
    IN  IF N = S THEN S ELSE UncachedReach(D, e, N)

\* f is not cached and reaches, through uncached features only, a feature on
\* a cycle of uncached features
OpenCycle(D, e, f) ==
    /\ ~CacheContains(D, get_feature_hash(e, f))
    /\ \E g \in UncachedReach(D, e, {f}) :
          g \in UncachedReach(D, e, UncachedDependencies(D, e, {g}))

(***************************************************************************)
(* C13 as stated. A resolve of a feature that depends on itself and is not *)
(* cached never returns a value and never caches the feature: it ends by   *)
(* exhausting the stack.                                                   *)
(***************************************************************************)
C13_NoCycleDetection_AsStated ==
    [][(/\ last'.op = "resolve"
        /\ OnCycle(last'.feature)
        /\ ~CacheContains(DictOf(heap, last'), KeyOf(last')))
       => /\ last'.err = "RecursionError"
          /\ last'.value = NO_VALUE
          /\ ~CacheContains(DictOf(heap', last'), KeyOf(last'))]_vars

(***************************************************************************)
(* C13, amended. A resolve of a feature that depends on itself, started    *)
(* while the feature is not cached and no cached feature cuts the cycle,   *)
(* recurses until the stack is exhausted: it ends in RecursionError at the *)
(* recursion limit, returns no value, never invokes the compute function   *)
(* of a feature on the cycle and leaves the feature uncached. When the     *)
(* feature is cached, or cached (stipulated) features cut every cycle it   *)
(* reaches, the resolve returns a value.                                   *)
(***************************************************************************)
C13_NoCycleDetection ==
    [][(last'.op = "resolve" /\ OnCycle(last'.feature))
       => LET e  == EntityOf(last')
              D  == DictOf(heap, last')
              D1 == DictOf(heap', last')
          IN  /\ OpenCycle(D, e, last'.feature)
                  => /\ last'.err = "RecursionError"
                     /\ last'.value = NO_VALUE
                     /\ last'.depth = RecursionLimit
                     /\ ~CacheContains(D1, KeyOf(last'))
                     /\ \A t \in Range(last'.computed) : ~OnCycle(t[4])
                     /\ \A g \in Range(feature_list(last'.cls)) :
                           (OnCycle(g) /\ ~CacheContains(D, get_feature_hash(e, g)))
                           => ~CacheContains(D1, get_feature_hash(e, g))
              /\ ~OpenCycle(D, e, last'.feature)
                  => /\ last'.err = ""
                     /\ last'.value # NO_VALUE
                     /\ CacheContains(D1, KeyOf(last'))]_vars

\* Pong resolved with nothing cached: Leaf is computed and cached, then
\* Ping and Pong call each other until the stack is exhausted
C13_Witness ==
    /\ last.op = "resolve"
    /\ last.feature = "Pong"
    /\ last.err = "RecursionError"
    /\ last.depth = RecursionLimit
    /\ Len(last.computed) = 1
    /\ CacheContains(DictOf(heap, last),
                     get_feature_hash(EntityOf(last), "Leaf"))
    /\ ~CacheContains(DictOf(heap, last), KeyOf(last))

(***************************************************************************)
(* C14. A stipulation of raw value v for feature f of entity e invokes no  *)
(* compute function and resolves no dependency; when value_type(v) is      *)
(* defined it writes value_type(v) under the key of (e, f) and changes no  *)
(* other entry of any cache: entries of the features that depend on f keep *)
(* the values they had.                                                    *)
(***************************************************************************)
C14_StipulateBypassesResolver ==
    [][last'.op = "stipulate"
       => LET e  == EntityOf(last')
              h  == KeyOf(last')
              D  == DictOf(heap, last')
              D1 == DictOf(heap', last')
              coerced == value_type(last'.feature, last'.raw)
          IN  /\ calls' = calls
              /\ last'.computed = <<>>
              /\ last'.depth = 0
              /\ last'.touched \subseteq {h}
              /\ \A c \in DOMAIN heap :
                    c # e.value_cache => heap'[c] = heap[c]
              /\ \A k \in DOMAIN D \ {h} :
                    CacheContains(D1, k) /\ CacheGet(D1, k) = CacheGet(D, k)
              /\ DOMAIN D1 \subseteq DOMAIN D \cup {h}
              /\ coerced.err = ""
                  => /\ last'.err = ""
                     /\ CacheContains(D1, h)
                     /\ CacheGet(D1, h) = coerced.value
                     /\ DOMAIN D1 = DOMAIN D \cup {h}]_vars

\* an area computed as 6.0 stays cached as 6.0 when the width is then
\* stipulated as 2.0
C14_Witness ==
    LET e == EntityOf(last)
        D == DictOf(heap, last)
    IN  /\ last.op = "stipulate"
        /\ last.err = ""
        /\ last.feature = "Width"
        /\ last.value = 2
        /\ CacheGet(D, get_feature_hash(e, "Length")) = 2
        /\ CacheGet(D, get_feature_hash(e, "Area")) = 6
        /\ Count(calls, <<last.session, last.cls, last.name, "Area">>) = 1

(***************************************************************************)
(* C15. A stipulation of a coercible value on a feature whose value was    *)
(* computed before replaces the cached value and raises nothing, and a     *)
(* later resolve returns the stipulated value. A resolve, and the resolves *)
(* of __repr__, never change or remove an entry the cache already holds:   *)
(* in every step, an existing entry changes only if the step is a          *)
(* stipulation on that entry's key.                                        *)
(***************************************************************************)
C15_OnlyStipulationOverwrites ==
    [][/\ (/\ last'.op = "stipulate"
           /\ Count(calls, TargetOf(last')) >= 1
           /\ value_type(last'.feature, last'.raw).err = "")
          => /\ last'.err = ""
             /\ CacheGet(DictOf(heap', last'), KeyOf(last'))
                   = value_type(last'.feature, last'.raw).value
       /\ (/\ last'.op = "resolve"
           /\ Count(calls, TargetOf(last')) >= 1
           /\ TargetOf(last') \in DOMAIN stipulated)
          => /\ last'.err = ""
             /\ last'.value = stipulated[TargetOf(last')]
             /\ last'.computed = <<>>
       /\ last'.op \in {"resolve", "repr"}
          => \A c \in DOMAIN heap : \A k \in DOMAIN heap[c] :
                /\ k \in DOMAIN heap'[c]
                /\ heap'[c][k] = heap[c][k]
       /\ \A c \in DOMAIN heap : \A k \in DOMAIN heap[c] :
             (k \notin DOMAIN heap'[c] \/ heap'[c][k] # heap[c][k])
             => /\ last'.op = "stipulate"
                /\ last'.err = ""
                /\ c = EntityOf(last').value_cache
                /\ k = KeyOf(last')]_vars

\* a width computed as 3.0, then stipulated as 2.0, resolves to 2.0
C15_Witness ==
    /\ last.op = "resolve"
    /\ last.feature = "Width"
    /\ last.value = 2
    /\ Count(calls, TargetOf(last)) = 1
    /\ TargetOf(last) \in DOMAIN stipulated
    /\ stipulated[TargetOf(last)] = 2

(***************************************************************************)
(* Vocabulary of failed coercions in a data source.                        *)
(***************************************************************************)
\* the places of ds whose raw value value_type rejects
BadPlaces(ds) ==
    {p \in Places({ds}) :
        /\ PlaceMapping(p).name_key \in DOMAIN PlaceRow(p)
        /\ PlaceMapping(p).feature_key \in DOMAIN PlaceRow(p)
        /\ value_type(PlaceMapping(p).feature,
                      PlaceRow(p)[PlaceMapping(p).feature_key]).err # ""}

\* all mappings of ds are on one name column: dump then visits the places
\* row by row and, within a row, in the order of the mappings
SingleNameKey(ds) ==
    Cardinality({ds.entity_feature_mappings[i].name_key :
                    i \in 1..Len(ds.entity_feature_mappings)}) = 1

\* dump visits place p before place q (of the same single-name-key source)
Before(p, q) == p[2] < q[2] \/ (p[2] = q[2] /\ p[3] < q[3])

\* the place at which a dump over ds fails to coerce
FirstBadPlace(ds) ==
    CHOOSE q \in BadPlaces(ds) : \A p \in BadPlaces(ds) : p = q \/ Before(q, p)

\* the cache key dump writes for place p in session s
PlaceKey(p, s) == get_feature_hash(PlaceEntity(p, s), PlaceMapping(p).feature)

(***************************************************************************)
(* C16. A stipulation whose raw value value_type rejects raises the        *)
(* coercion error and leaves every cache exactly as it was (the key of     *)
(* (e, f) keeps its value or stays absent). A dump that meets such a value *)
(* ends with that error; the values it stipulated from the rows and        *)
(* mappings before it are in the cache, and the keys of the failing place  *)
(* and of the places after it are as they were before the dump.            *)
(***************************************************************************)
C16_CoercionFailureKeepsCache ==
    [][/\ (/\ nops' = nops + 1
           /\ last'.op = "stipulate"
           /\ value_type(last'.feature, last'.raw).err # "")
          => /\ last'.err = value_type(last'.feature, last'.raw).err
             /\ last'.err \in {"ValueError", "TypeError"}
             /\ heap' = heap
             /\ stipulated' = stipulated
             /\ calls' = calls
       /\ (nops' = nops + 1 /\ last'.op = "dump")
          => \A ds \in last'.sources :
               (SingleNameKey(ds) /\ ~LacksMappedColumn(ds) /\ BadPlaces(ds) # {})
               => LET q == FirstBadPlace(ds)
                      s == last'.session
                      D  == SessionDict(heap, s)
                      D1 == SessionDict(heap', s)
                      earlier == {p \in Places({ds}) : Before(p, q)}
                  IN  /\ last'.err =
                            value_type(PlaceMapping(q).feature,
                                PlaceRow(q)[PlaceMapping(q).feature_key]).err
                      /\ \A p \in earlier :
                            (\A p2 \in earlier :
                                PlaceKey(p2, s) = PlaceKey(p, s)
                                => (p2 = p \/ Before(p2, p)))
                            => CacheGet(D1, PlaceKey(p, s)) = Supplied(p)
                      /\ \A p \in Places({ds}) \ earlier :
                            (\A p2 \in earlier :
                                PlaceEntity(p2, s).name # PlaceEntity(p, s).name)
                            => /\ CacheContains(D1, PlaceKey(p, s))
                                    = CacheContains(D, PlaceKey(p, s))
                               /\ CacheGet(D1, PlaceKey(p, s))
                                    = CacheGet(D, PlaceKey(p, s))]_vars

\* the dump of the source whose second row holds the width "abc" ends in
\* ValueError: rectangle a keeps the width 3.0 of the first row, and neither
\* the width nor the length of rectangle b is cached
C16_Witness ==
    LET a == EntityInit("Rectangle", last.session, "a")
        b == EntityInit("Rectangle", last.session, "b")
    IN  /\ last.op = "dump"
        /\ last.err = "ValueError"
        /\ CacheGet(DictFor(heap, a), get_feature_hash(a, "Width")) = 3
        /\ CacheGet(DictFor(heap, a), get_feature_hash(a, "Area")) = 6
        /\ ~CacheContains(DictFor(heap, b), get_feature_hash(b, "Width"))
        /\ ~CacheContains(DictFor(heap, b), get_feature_hash(b, "Length"))

(***************************************************************************)
(* C17. Threads that resolve features of one entity on the shared cache    *)
(* without synchronization invoke a feature's compute function once for    *)
(* every thread whose contains-check found the key absent, not once per    *)
(* key: when two threads both pass the check before either has stored the  *)
(* value, the compute function is invoked twice.                           *)
(***************************************************************************)
\* thread t found f absent and has yet to call f's compute function
ComputePending(t, f) ==
    \E k \in 1..Len(threads[t].stack) :
        /\ threads[t].stack[k].feature = f
        /\ threads[t].stack[k].pc \in {"dependencies", "store_dependency",
                                       "compute"}

\* the threads whose contains-check found f absent and that have called
\* f's compute function since
Computers(f) ==
    {t \in ThreadIds : f \in threads[t].missed /\ ~ComputePending(t, f)}

C17_NoComputeOnceUnderConcurrency ==
    \A f \in Range(FeatureClasses) :
        LET e == EntityInit(FeatureEntity(f), "s1", "a")
        IN  /\ Count(calls, Target("s1", e, f)) = Cardinality(Computers(f))
            /\ \A t \in ThreadIds :
                  (threads[t].state = "done" /\ threads[t].feature = f)
                  => /\ threads[t].result = Expected(EmptyDict, e, f)
                     /\ CacheGet(heap[e.value_cache], get_feature_hash(e, f))
                           = threads[t].result

\* two threads have resolved the area of rectangle a, and the compute
\* function of the area has run twice
C17_Witness ==
    /\ threads[1].state = "done"
    /\ threads[2].state = "done"
    /\ threads[1].feature = "Area"
    /\ threads[2].feature = "Area"
    /\ Count(calls, <<"s1", "Rectangle", "a", "Area">>) = 2
    /\ threads[1].result = 6
    /\ threads[2].result = 6

(***************************************************************************)
(* C18. When a dump has run to its end, every feature with dependencies    *)
(* that the dump computed for an entity it hydrated holds, in the cache,   *)
(* its compute function applied to the values the cache then holds for its *)
(* dependencies.                                                           *)
(***************************************************************************)
\* the entities a dump over the sources hydrates in session s
Hydrated(sources, s) ==
    {PlaceEntity(p, s) :
        p \in {q \in Places(sources) :
                 PlaceMapping(q).name_key \in DOMAIN PlaceRow(q)}}

\* in dict D, the value of f on e is compute applied to the cached values of
\* f's dependencies
Consistent(D, e, f) ==
    LET deps == dependency_classes(f)
    IN  /\ \A i \in 1..Len(deps) : CacheContains(D, get_feature_hash(e, deps[i]))
        /\ CacheGet(D, get_feature_hash(e, f))
              = calculate(f, [i \in 1..Len(deps) |->
                                CacheGet(D, get_feature_hash(e, deps[i]))])

C18_DerivedConsistentAfterDump ==
    (last.op = "dump" /\ last.err = "")
    => \A e \in Hydrated(last.sources, last.session) :
          \A f \in Range(feature_list(e.cls)) :
             (/\ dependency_classes(f) # <<>>
              /\ Target(last.session, e, f) \in Range(last.computed)
              /\ Target(last.session, e, f) \notin DOMAIN stipulated)
             => Consistent(DictFor(heap, e), e, f)

(***************************************************************************)
(* C19. As long as no stipulate on an entity has followed a resolve on it, *)
(* every feature that is cached for the entity and was not stipulated has  *)
(* all its dependencies cached and holds its compute function applied to   *)
(* their cached values.                                                    *)
(***************************************************************************)
C19_ConsistencyWhenStipulationsFirst ==
    \A cls \in Range(globals.entities), name \in EntityNames :
        LET e == EntityInit(cls, "s1", name)
            D == DictFor(heap, e)
        IN  ~(/\ EntityId("s1", e) \in DOMAIN phase
              /\ phase[EntityId("s1", e)] = "late")
            => \A f \in Range(feature_list(cls)) :
                  (/\ CacheContains(D, get_feature_hash(e, f))
                   /\ Target("s1", e, f) \notin DOMAIN stipulated)
                  => Consistent(D, e, f)

\* a width stipulated as 2.0 before the area is resolved: the area is 4.0,
\* the stipulated width times the computed length
C19_Witness ==
    LET e == EntityOf(last)
        D == DictOf(heap, last)
    IN  /\ last.op = "resolve"
        /\ last.feature = "Area"
        /\ last.value = 4
        /\ phase[EntityId(last.session, e)] = "resolved"
        /\ Target(last.session, e, "Width") \in DOMAIN stipulated
        /\ Target(last.session, e, "Length") \notin DOMAIN stipulated
        /\ CacheGet(D, get_feature_hash(e, "Length")) = 2

====
